---- MODULE Spec2Model ----
(***************************************************************************)
(* Model of src/src/App.tsx: the procedural texture generator              *)
(* createTexture, the two pieces of App state (color, texture) with their  *)
(* click / change handlers, and the Model component, which memoizes the    *)
(* generated texture on the texture prop and hands color and map to the    *)
(* mesh material.                                                          *)
(***************************************************************************)
EXTENDS Integers, FiniteSets, Sequences, TLC

VARIABLES
    color,              \* App: useState<string>('#ffffff')
    texture,            \* App: useState<TextureType>('none')
    pending,            \* a state update has been made that Model has not rendered yet
    deps,               \* Model: the dependency list useMemo stored at the last render
    proceduralTexture,  \* Model: the value useMemo holds
    material,           \* the props last given to <meshStandardMaterial>
    nextId,             \* number of THREE.DataTexture objects constructed so far
    generated           \* every (type, buffer) pair createTexture has produced so far

vars == <<color, texture, pending, deps, proceduralTexture, material, nextId, generated>>

----------------------------------------------------------------------------
(* Bounds of the model *)

\* how many of the preset colour buttons are clicked in the model
NumPresets == 1

\* how many DataTexture objects a run may construct
MaxTextures == 3

----------------------------------------------------------------------------
(* Constants of the program *)

width == 64
height == 64
size == width * height

presetColors == <<"#ffffff", "#ff6347", "#4682b4", "#32cd32", "#ffd700", "#6a5acd", "#ee82ee">>
textureOptions == <<"none", "checkered", "striped">>

TextureType == {"none", "checkered", "striped"}

\* the buttons the model clicks, and the values the colour input reports
Presets == {presetColors[n] : n \in 1..NumPresets}
CustomValues == {"#000000"} \cup Presets

\* the JavaScript null
NULL == [null |-> TRUE]

----------------------------------------------------------------------------
(* createTexture *)

\* mutant: the checkered parity test inverted (=== 1)
isWhite_inverted(type, x, y) ==
    IF type = "checkered"
    THEN ((x \div 8) + (y \div 8)) % 2 = 1
    ELSE (y \div 8) % 2 = 0

\* mutant: the stripes taken from x instead of y
isWhite_vertical(type, x, y) ==
    IF type = "checkered"
    THEN ((x \div 8) + (y \div 8)) % 2 = 0
    ELSE (x \div 8) % 2 = 0

\* the isWhite test of the loop body, for the pixel (x, y)
isWhite(type, x, y) ==
    IF type = "checkered"
    THEN ((x \div 8) + (y \div 8)) % 2 = 0
    ELSE (y \div 8) % 2 = 0

\* mutant: the light value depends on the colour selected when the texture is built
pixelColor_tinted(type, i) ==
    LET x == i % width
        y == i \div width
    IN  IF isWhite(type, x, y)
        THEN (IF color = "#ffffff" THEN 255 ELSE 200)
        ELSE 100

\* the value `color` of iteration i of the loop
pixelColor(type, i) ==
    LET x == i % width
        y == i \div width
    IN  IF isWhite(type, x, y) THEN 255 ELSE 100

\* mutant: the alpha byte written with the grey value
pixelBytes_greyAlpha(type, i) ==
    <<pixelColor(type, i), pixelColor(type, i), pixelColor(type, i), pixelColor(type, i)>>

\* the four bytes iteration i writes at stride, stride + 1, stride + 2, stride + 3
pixelBytes(type, i) ==
    <<pixelColor(type, i), pixelColor(type, i), pixelColor(type, i), 255>>

\* mutant: three components per pixel
dataLength_rgb == 3 * size

\* the number of bytes of the Uint8Array
dataLength == 4 * size

\* the indices the for loop runs over
loopRange == 0 .. (size - 1)

\* the Uint8Array after the loop: zero-filled by the constructor, then
\* overwritten at the four offsets of every iteration i (stride = i * 4)
fillData(type) ==
    [k \in 0 .. (dataLength - 1) |->
        IF (k \div 4) \in loopRange
        THEN pixelBytes(type, k \div 4)[(k % 4) + 1]
        ELSE 0]

\* new THREE.DataTexture(data, width, height, THREE.RGBAFormat); needsUpdate = true.
\* id is the identity of the new object.
DataTexture(data, w, h) ==
    [id |-> nextId + 1,
     image |-> [data |-> data, width |-> w, height |-> h],
     format |-> "RGBAFormat",
     needsUpdate |-> TRUE]

\* mutant: the early return for 'none' left out
createTexture_noEarlyReturn(type) ==
    DataTexture(fillData(type), width, height)

createTexture(type) ==
    IF type = "none"
    THEN NULL
    ELSE DataTexture(fillData(type), width, height)

----------------------------------------------------------------------------
(* App *)

Init ==
    /\ color = "#ffffff"
    /\ texture = "none"
    /\ pending = FALSE
    /\ deps = "none"
    /\ proceduralTexture = NULL
    /\ material = [color |-> "#ffffff", map |-> NULL]
    /\ nextId = 0
    /\ generated = {}

\* mutant: choosing a colour also resets the texture
setColor_resetsTexture(c) ==
    /\ color' = c
    /\ pending' = TRUE
    /\ texture' = "none"

\* the state setter of color: only the color cell changes, a render is scheduled
setColor(c) ==
    /\ color' = c
    /\ pending' = TRUE
    /\ UNCHANGED texture

\* the state setter of texture: only the texture cell changes, a render is scheduled
setTexture(t) ==
    /\ texture' = t
    /\ pending' = TRUE
    /\ UNCHANGED color

ModelUntouched == UNCHANGED <<deps, proceduralTexture, material, nextId, generated>>

\* onClick of a preset colour button
ClickPreset ==
    \E preset \in Presets :
        /\ setColor(preset)
        /\ ModelUntouched

\* onChange of the custom colour input
ChangeCustomColor ==
    \E value \in CustomValues :
        /\ setColor(value)
        /\ ModelUntouched

\* onClick of a texture button
ClickTexture ==
    \E n \in 1..Len(textureOptions) :
        LET tex == textureOptions[n] IN
        /\ tex = "none" \/ tex = texture \/ nextId < MaxTextures
        /\ setTexture(tex)
        /\ ModelUntouched

----------------------------------------------------------------------------
(* Model *)

\* mutant: no dependency list, the factory runs at every render
depsChanged_always(prop) == TRUE

\* useMemo(..., [texture]): the factory runs again iff the dependency differs
\* from the one stored at the previous render
depsChanged(prop) == prop # deps

\* the value of useMemo(() => createTexture(texture), [texture])
useMemo(prop) ==
    IF depsChanged(prop) THEN createTexture(prop) ELSE proceduralTexture

\* mutant: the colour prop is not passed on
materialProps_staleColor(c, map) == [color |-> material.color, map |-> map]

\* mutant: a null map leaves the previous map on the material
materialProps_keepsMap(c, map) ==
    [color |-> c, map |-> IF map = NULL THEN material.map ELSE map]

\* the props of <meshStandardMaterial color={color} map={proceduralTexture} .../>
materialProps(c, map) == [color |-> c, map |-> map]

\* one render of Model({color, texture})
Render ==
    LET value == useMemo(texture)
        ran == depsChanged(texture)
    IN  /\ proceduralTexture' = value
        /\ deps' = texture
        /\ material' = materialProps(color, value)
        /\ nextId' = IF ran /\ value # NULL THEN nextId + 1 ELSE nextId
        /\ generated' = IF ran /\ value # NULL
                        THEN generated \cup {[type |-> texture, data |-> value.image.data]}
                        ELSE generated
        /\ pending' = FALSE
        /\ UNCHANGED <<color, texture>>

----------------------------------------------------------------------------

Next ==
    \/ ClickPreset
    \/ ChangeCustomColor
    \/ ClickTexture
    \/ Render

Spec == Init /\ [][Next]_vars

----------------------------------------------------------------------------
(* Properties *)

\* the buffer of the texture Model holds (only used where one is held)
heldData == proceduralTexture.image.data

\* the index of pixel (x, y)
pixelIndex(x, y) == y * width + x

\* the bytes 4i, 4i+1, 4i+2 of buffer d all equal v
grey(d, i, v) == d[4 * i] = v /\ d[4 * i + 1] = v /\ d[4 * i + 2] = v

\* a texture for the kind `deps` is held
Holds(kind) == deps = kind /\ proceduralTexture # NULL

\* C1: for kind checkered, every pixel i (x = i mod width, y = i div width) has
\* its bytes 4i, 4i+1, 4i+2 equal to 255 when ((x div 8) + (y div 8)) mod 2 = 0
\* and to 100 otherwise; at 64x64 pixels (0,0) and (8,8) are 255 and (8,0) and
\* (0,8) are 100.
C1_Checkered ==
    deps = "checkered" =>
        /\ proceduralTexture # NULL
        /\ \A i \in 0 .. (width * height - 1) :
              LET x == i % width
                  y == i \div width
              IN  grey(heldData, i,
                       IF ((x \div 8) + (y \div 8)) % 2 = 0 THEN 255 ELSE 100)
        /\ (width = 64 /\ height = 64) =>
              /\ grey(heldData, pixelIndex(0, 0), 255)
              /\ grey(heldData, pixelIndex(8, 8), 255)
              /\ grey(heldData, pixelIndex(8, 0), 100)
              /\ grey(heldData, pixelIndex(0, 8), 100)

C1_Witness ==
    /\ Holds("checkered")
    /\ heldData[4 * pixelIndex(8, 0)] = 100
    /\ heldData[4 * pixelIndex(8, 8)] = 255

\* C2: for kind striped, every pixel i has its bytes 4i, 4i+1, 4i+2 equal to 255
\* when (y div 8) mod 2 = 0 and to 100 otherwise, whatever x is; at 64x64 every
\* pixel of row 0 is 255 and every pixel of row 8 is 100.
C2_Striped ==
    deps = "striped" =>
        /\ proceduralTexture # NULL
        /\ \A y \in 0 .. (height - 1) : \A x \in 0 .. (width - 1) :
              grey(heldData, pixelIndex(x, y),
                   IF (y \div 8) % 2 = 0 THEN 255 ELSE 100)
        /\ (width = 64 /\ height = 64) =>
              \A x \in 0 .. 63 :
                  /\ grey(heldData, pixelIndex(x, 0), 255)
                  /\ grey(heldData, pixelIndex(x, 8), 100)

C2_Witness ==
    /\ Holds("striped")
    /\ heldData[4 * pixelIndex(63, 0)] = 255
    /\ heldData[4 * pixelIndex(63, 8)] = 100

\* C3: createTexture returns null for kind none and, for checkered and striped,
\* a texture whose buffer has every byte written (no byte left at the zero the
\* constructor put there).
C3_AbsentOrPopulated ==
    /\ deps = "none" => proceduralTexture = NULL
    /\ deps \in {"checkered", "striped"} =>
          /\ proceduralTexture # NULL
          /\ \A k \in DOMAIN heldData : heldData[k] \in {100, 255}
          /\ \A i \in 0 .. (width * height - 1) :
                \A c \in 0 .. 3 : (4 * i + c) \in DOMAIN heldData

\* both a null result (after a texture had been built) and a texture have been returned
C3_Witness ==
    /\ nextId >= 2
    /\ deps = "none"
    /\ proceduralTexture = NULL
    /\ {g.type : g \in generated} = {"checkered", "striped"}

\* C4: for every kind other than none the buffer has exactly 4 * width * height
\* bytes (16384 at 64x64) and the texture carries that width and height.
C4_Length ==
    deps # "none" =>
        /\ proceduralTexture # NULL
        /\ DOMAIN heldData = 0 .. (4 * width * height - 1)
        /\ Cardinality(DOMAIN heldData) = 4 * width * height
        /\ (width = 64 /\ height = 64) => Cardinality(DOMAIN heldData) = 16384
        /\ proceduralTexture.image.width = width
        /\ proceduralTexture.image.height = height

C4_Witness ==
    /\ Holds("striped")
    /\ Cardinality(DOMAIN heldData) = 16384
    /\ nextId >= 2

\* C5: for every kind other than none and every pixel i, byte 4i+3 (alpha) is 255.
C5_Alpha ==
    deps # "none" =>
        /\ proceduralTexture # NULL
        /\ \A i \in 0 .. (width * height - 1) : heldData[4 * i + 3] = 255

\* a dark pixel of a held texture, whose alpha is still 255
C5_Witness ==
    /\ Holds("checkered")
    /\ heldData[4 * pixelIndex(8, 0)] = 100
    /\ heldData[4 * pixelIndex(8, 0) + 3] = 255

\* C6: two calls of createTexture with the same kind give byte-identical buffers,
\* whatever happened in between (colour changes, other kinds generated), so the
\* buffer memoized for a kind equals the one a new call for that kind would give.
C6_Idempotent ==
    /\ \A g1, g2 \in generated : g1.type = g2.type => g1.data = g2.data
    /\ proceduralTexture # NULL =>
          proceduralTexture.image = createTexture(deps).image

\* three textures built of two kinds, so one kind was generated twice, with
\* colour changes and another kind in between
C6_Witness ==
    /\ nextId = 3
    /\ Cardinality(generated) = 2
    /\ color # "#ffffff"
    /\ Holds("checkered")

\* C7: colour and kind can be set at any time, in any order, any number of times;
\* the next render of Model gives the material the most recently set colour and
\* the texture of the most recently set kind, and no map when that kind is none.
C7_NextRender ==
    [][ Render =>
          /\ material'.color = color
          /\ texture = "none" => material'.map = NULL
          /\ texture # "none" =>
                /\ material'.map # NULL
                /\ material'.map.image = createTexture(texture).image
      ]_vars

\* several settings made without a render in between have all been rendered
C7_Witness ==
    /\ ~pending
    /\ nextId >= 2
    /\ color = "#000000"
    /\ texture = "striped"
    /\ material.color = "#000000"
    /\ material.map # NULL
    /\ material.map.id = nextId

\* the steps of the handlers
ColorStep == ClickPreset \/ ChangeCustomColor
TextureStep == ClickTexture

\* C8 as stated: a render after the kind changed produces a new texture resource,
\* every other render keeps the one held; no other step touches it.
C8_Original ==
    [][ /\ Render =>
            IF texture # deps
            THEN /\ proceduralTexture' # NULL
                 /\ proceduralTexture'.id > nextId
            ELSE proceduralTexture' = proceduralTexture
        /\ (ColorStep \/ TextureStep) => proceduralTexture' = proceduralTexture
      ]_vars

\* C8 amended: a render after the kind changed to checkered or striped produces
\* a new texture resource, a render after the kind changed to none produces no
\* resource (null), and every other render (after setColor, after the current
\* kind was selected again) keeps the very object held; no other step touches it.
C8_FreshOnKindChange ==
    [][ /\ Render =>
            IF texture # deps
            THEN IF texture = "none"
                 THEN proceduralTexture' = NULL
                 ELSE /\ proceduralTexture' # NULL
                      /\ proceduralTexture'.id > nextId
                      /\ nextId' = nextId + 1
            ELSE /\ proceduralTexture' = proceduralTexture
                 /\ nextId' = nextId
        /\ (ColorStep \/ TextureStep) =>
              /\ proceduralTexture' = proceduralTexture
              /\ nextId' = nextId
      ]_vars

\* a colour was set and rendered while a texture was held: still the same object
C8_Witness ==
    /\ ~pending
    /\ nextId = 2
    /\ Holds("striped")
    /\ proceduralTexture.id = 2
    /\ material.color = "#000000"

\* the texture resources still referenced by Model or by the material
Live == {t \in {proceduralTexture, material.map} : t # NULL}

\* C9: at most one generated texture resource is live (held by Model or mapped on
\* the material); once the selection has been rendered it is the one of the
\* current kind, and none is live when the current kind is none.
C9_AtMostOneLive ==
    /\ Cardinality(Live) <= 1
    /\ ~pending =>
          /\ texture = "none" => Live = {}
          /\ texture # "none" =>
                \A t \in Live : t.image = createTexture(texture).image

\* two textures were built, the kind went back to none, nothing is live
C9_Witness ==
    /\ ~pending
    /\ nextId >= 2
    /\ texture = "none"
    /\ Live = {}

\* C10: from colour '#ffffff' and kind none, every setColor leaves the kind
\* unchanged, every setTexture leaves the colour unchanged, and the kind is always
\* one of none, checkered, striped.
C10_Independent ==
    /\ (color = "#ffffff" /\ texture = "none")
    /\ [][ /\ ColorStep => texture' = texture
           /\ TextureStep => color' = color
           /\ texture' \in {"none", "checkered", "striped"}
       ]_vars

C10_Witness ==
    /\ color = "#000000"
    /\ texture = "checkered"
    /\ pending

====
